---- MODULE Spec2Model ----
(***************************************************************************)
(* Model of the authentication and task-tracking handlers of the lessons:  *)
(*   - POST /register and POST /login (bcrypt + PostgreSQL users table),    *)
(*   - the JWT issued by login and checked by authenticateToken,            *)
(*   - the protected task routes and the in-memory task server.             *)
(* Every await in a handler is an interleaving point: one action per       *)
(* stretch of code between two awaits.                                      *)
(***************************************************************************)
EXTENDS Naturals, Integers, Sequences, FiniteSets, TLC

(* ------------------------------ bounds --------------------------------- *)
\* number of concurrent /register and /login requests
MaxAcctReqs == 3
\* the clock stops here
MaxTime == 8
\* number of login requests in SpecAuth
MaxAuthLogins == 1
\* requests to /register and /login served while the database may fail
MaxFaultReqs == 3
\* backend/http.js: requests served, and characters of a request body
MaxHttpReqs == 3
MaxBodyLen == 2
\* the logins of one browser session
MaxSessionLogins == 2
\* the in-memory task server: tasks held at once, and how far its clock runs
MaxMemTasks == 2
MaxMemTime == 1
\* the tasks table: INSERTs issued, and how far the database clock runs
MaxDbTasks == 2
MaxDbTime == 1

(* --------------------------- input domains ----------------------------- *)
\* two emails that differ only in letter case
Emails == {"a@x.com", "A@x.com"}
Passwords == {"pw1", "pw2"}
AcctReqs == 1..MaxAcctReqs

\* bcrypt.hash(password, 10): the cost factor
SaltRounds == 10
\* jwt.sign(..., { expiresIn: '7d' }): the token lifetime, in days (the clock's unit)
TokenLifetime == 7
\* process.env.JWT_SECRET, and a key the server does not hold
JwtSecret == "JWT_SECRET"
OtherSecret == "attacker-key"

VARIABLES
    users,      \* rows of the users table: [id, email, password]
    userSeq,    \* the SERIAL sequence behind users.id
    acct,       \* per request of /register or /login: the handler's state
    now,        \* the server clock, in days
    issued,     \* history: the tokens jwt.sign has returned
    mw,         \* the request to a protected route being served: the middleware's state
    memTasks,   \* challenge/server.js: the module-level tasks array
    memRes,     \* challenge/server.js: the response to the latest request
    tasks,      \* rows of the tasks table
    taskSeq,    \* the SERIAL sequence behind tasks.id
    taskRes,    \* the response to the latest request to a task route
    localStorage, \* the browser: the value kept under the key 'token'
    http        \* backend/http.js: the request being served and those left open

vars == <<users, userSeq, acct, now, issued, mw, memTasks, memRes,
          tasks, taskSeq, taskRes, localStorage, http>>
\* the browser's and the raw HTTP server's own state
sideVars == <<localStorage, http>>
\* the database-backed task routes' own state
dbVars == <<tasks, taskSeq, taskRes>>
\* the in-memory task server's own state
memVars == <<memTasks, memRes>>
\* what the /register and /login handlers never touch
acctFrame == <<mw, memVars, dbVars, sideVars>>
\* what authenticateToken and the clock never touch
authFrame == <<users, userSeq, acct, issued, memVars, dbVars, sideVars>>
\* what the in-memory task server never touches
memFrame == <<users, userSeq, acct, issued, mw, dbVars, sideVars>>
\* what the database-backed task routes never touch
dbFrame == <<users, userSeq, acct, issued, mw, memVars, sideVars>>

(* ------------------------- password hasher ----------------------------- *)
NoHash == [alg |-> "none", cost |-> 0, salt |-> <<>>, digest |-> <<>>]

\* bcrypt.hash(plaintext, rounds) with the salt it drew: the salt and cost
\* are embedded in the result, the digest is one-way in (plaintext, salt, cost)
BcryptHash(plaintext, rounds, salt) ==
    [alg |-> "2b", cost |-> rounds, salt |-> salt,
     digest |-> <<"bcrypt", plaintext, salt, rounds>>]

\* variant: the stored value compared as if it were the plaintext
BcryptCompare_PlainEquality(plaintext, stored) ==
    /\ stored.alg = "2b"
    /\ stored.digest = plaintext

\* bcrypt.compare(plaintext, stored): recompute with the embedded salt
BcryptCompare(plaintext, stored) ==
    /\ stored.alg = "2b"
    /\ stored.digest = <<"bcrypt", plaintext, stored.salt, stored.cost>>

(* --------------------------- token service ---------------------------- *)
\* the HMAC over header.payload: equal exactly when payload and key are equal
HmacSha256(userId, iat, exp, secret) == <<"HS256", userId, iat, exp, secret>>

\* jwt.sign({ userId }, secret, { expiresIn: '7d' }) at clock t
JwtSign(userId, secret, t) ==
    [kind |-> "jwt", userId |-> userId, iat |-> t, exp |-> t + TokenLifetime,
     sig |-> HmacSha256(userId, t, t + TokenLifetime, secret)]

\* variant: the payload decoded without checking the signature (jwt.decode)
JwtVerify_DecodeOnly(token, secret, t) ==
    IF token.kind # "jwt" THEN "JsonWebTokenError"
    ELSE IF t >= token.exp THEN "TokenExpiredError"
    ELSE "ok"

\* variant: a token still accepted at the instant of its expiration
JwtVerify_ExpInclusive(token, secret, t) ==
    IF token.kind # "jwt" THEN "JsonWebTokenError"
    ELSE IF token.sig # HmacSha256(token.userId, token.iat, token.exp, secret)
         THEN "JsonWebTokenError"
    ELSE IF t > token.exp THEN "TokenExpiredError"
    ELSE "ok"

\* variant: verify called with { maxAge: '1d' }, a token refused a day after
\* it was issued
JwtVerify_MaxAge(token, secret, t) ==
    IF token.kind # "jwt" THEN "JsonWebTokenError"
    ELSE IF token.sig # HmacSha256(token.userId, token.iat, token.exp, secret)
         THEN "JsonWebTokenError"
    ELSE IF t >= token.exp \/ t >= token.iat + 1 THEN "TokenExpiredError"
    ELSE "ok"

\* jwt.verify(token, secret, cb) at clock t: the err handed to cb, or "ok"
JwtVerify(token, secret, t) ==
    IF token.kind # "jwt" THEN "JsonWebTokenError"
    ELSE IF token.sig # HmacSha256(token.userId, token.iat, token.exp, secret)
         THEN "JsonWebTokenError"
    ELSE IF t >= token.exp THEN "TokenExpiredError"
    ELSE "ok"

(* --------------------------- users table ------------------------------- *)
\* SELECT * FROM users WHERE email = $1   (VARCHAR equality: case-sensitive)
SelectUsersByEmail(email) == {u \in users : u.email = email}

\* variant: a users table created without UNIQUE on email
UniqueEmailViolated_NoConstraint(email) == FALSE

\* the UNIQUE constraint on users.email, checked by the INSERT itself
UniqueEmailViolated(email) == \E u \in users : u.email = email

(* ------------------------------ requests ------------------------------- *)
NoBody == [none |-> TRUE]
IdleReq == [kind |-> "none", email |-> "", password |-> "", pc |-> "idle",
            hashed |-> NoHash, row |-> [id |-> 0, email |-> "", password |-> NoHash],
            status |-> 0, body |-> NoBody, after |-> {}, responses |-> 0]

\* history, for stating properties: the (email, password) pairs whose
\* registration has already been answered 201
Registered201 ==
    {<<acct[j].email, acct[j].password>> :
        j \in {k \in AcctReqs : /\ acct[k].kind = "register"
                                /\ acct[k].pc = "done"
                                /\ acct[k].status = 201}}

Respond(i, code, json) ==
    acct' = [acct EXCEPT ![i].pc = "done", ![i].status = code, ![i].body = json,
                         ![i].responses = @ + 1]

(* ----------------------------- JSON values ----------------------------- *)
\* a value of a request body or of a task field, tagged with its JS type;
\* Undefined is a property that is absent
Undefined == [t |-> "undefined"]
Str(v) == [t |-> "string", v |-> v]
Bool(v) == [t |-> "boolean", v |-> v]

\* req.params.id is a string: its characters
DigitChars == <<"0", "1", "2", "3", "4", "5", "6", "7", "8", "9">>
IsDigit(c) == \E k \in 1..10 : DigitChars[k] = c
DigitVal(c) == (CHOOSE k \in 1..10 : DigitChars[k] = c) - 1
NaN == [nan |-> TRUE, val |-> 0]
RECURSIVE ParseDigits(_, _)
ParseDigits(str, acc) ==
    IF str = <<>> \/ ~IsDigit(Head(str)) THEN acc
    ELSE ParseDigits(Tail(str), 10 * acc + DigitVal(Head(str)))
\* parseInt(id): the leading digits, NaN when there are none
ParseInt(str) ==
    IF str = <<>> \/ ~IsDigit(Head(str)) THEN NaN
    ELSE [nan |-> FALSE, val |-> ParseDigits(str, 0)]
\* t.id === parseInt(id): NaN equals nothing
IdEquals(id, parsed) == ~parsed.nan /\ id = parsed.val

\* SQL NULL: what pg sends for an undefined parameter
Null == [t |-> "null"]
NoTaskRes == [op |-> "none", caller |-> 0, status |-> 0, body |-> NoBody,
              targetOwner |-> 0, changed |-> FALSE]

NoMemRes == [op |-> "none", status |-> 0, body |-> NoBody,
             req |-> NoBody, changed |-> FALSE]

(* ----------------------- Authorization header -------------------------- *)
\* a header value is a string; its characters are a space, a scheme word,
\* or a whole token (tokens and words contain no space)
SP == [kind |-> "sp"]
Word(w) == [kind |-> "word", text |-> w]
Garbage == [kind |-> "garbage"]
NoHeader == [present |-> FALSE, chars |-> <<>>]
HeaderOf(chars) == [present |-> TRUE, chars |-> chars]

\* String.prototype.split(' ')
RECURSIVE SplitOnSpace(_)
SplitOnSpace(str) ==
    IF \A k \in 1..Len(str) : str[k] # SP
      THEN <<str>>
      ELSE LET k == CHOOSE n \in 1..Len(str) :
                        /\ str[n] = SP
                        /\ \A m \in 1..(n - 1) : str[m] # SP
           IN <<SubSeq(str, 1, k - 1)>> \o SplitOnSpace(SubSeq(str, k + 1, Len(str)))

\* authHeader && authHeader.split(' ')[1]; undefined and '' (both falsy) are <<>>
ExtractToken(header) ==
    IF ~header.present \/ header.chars = <<>> THEN <<>>
    ELSE LET parts == SplitOnSpace(header.chars)
         IN IF Len(parts) >= 2 THEN parts[2] ELSE <<>>

\* jwt.verify on the extracted string: anything but one well-formed token
\* is 'jwt malformed'
JwtVerifyString(str, secret, t) ==
    IF Len(str) = 1 THEN JwtVerify(str[1], secret, t) ELSE "JsonWebTokenError"

IdleMw == [state |-> "idle", header |-> NoHeader, token |-> <<>>,
           user |-> [userId |-> 0], status |-> 0, body |-> NoBody,
           nextCalls |-> 0, errCalls |-> 0, handlerRuns |-> 0,
           verdict |-> "none", verifiedAt |-> 0]

\* localStorage.getItem('token') when nothing is stored
NoItem == [kind |-> "null"]

\* http.js before any request: no request in the handler, none left open
IdleHttp == [phase |-> "idle", method |-> "", url |-> "", body |-> <<>>,
             statusCode |-> 0, finished |-> FALSE, served |-> 0, open |-> 0]

Init ==
    /\ users = {}
    /\ userSeq = 0
    /\ acct = [i \in AcctReqs |-> IdleReq]
    /\ now = 0
    /\ issued = {}
    /\ mw = IdleMw
    /\ memTasks = <<>>
    /\ memRes = NoMemRes
    /\ tasks = {}
    /\ taskSeq = 0
    /\ taskRes = NoTaskRes
    /\ localStorage = NoItem
    /\ http = IdleHttp

\* a request arrives: express.json() has parsed {email, password}
AcctArrive(i, kind, email, password) ==
    /\ acct[i].pc = "idle"
    /\ \A j \in AcctReqs : j < i => acct[j].pc # "idle"
    /\ acct' = [acct EXCEPT ![i].kind = kind, ![i].email = email,
                            ![i].password = password, ![i].pc = "select",
                            ![i].after = Registered201]
    /\ UNCHANGED <<users, userSeq, now, issued, acctFrame>>

(* ----------------------------- /register ------------------------------- *)
\* variant: the 400 sent without return, the handler running on to the hash
RegisterSelect_NoReturn(i) ==
    /\ acct[i].kind = "register"
    /\ acct[i].pc = "select"
    /\ IF SelectUsersByEmail(acct[i].email) # {}
         THEN acct' = [acct EXCEPT ![i].pc = "hash", ![i].status = 400,
                                   ![i].body = [error |-> "User already exists"],
                                   ![i].responses = @ + 1]
         ELSE acct' = [acct EXCEPT ![i].pc = "hash"]
    /\ UNCHANGED <<users, userSeq, now, issued, acctFrame>>

\* existingUser = await pool.query(SELECT ...); if rows.length > 0 return 400
RegisterSelect(i) ==
    /\ acct[i].kind = "register"
    /\ acct[i].pc = "select"
    /\ IF SelectUsersByEmail(acct[i].email) # {}
         THEN Respond(i, 400, [error |-> "User already exists"])
         ELSE acct' = [acct EXCEPT ![i].pc = "hash"]
    /\ UNCHANGED <<users, userSeq, now, issued, acctFrame>>

\* the salt bcrypt.hash draws in request i: random, so no two calls share one
FreshSalt(i) == <<"salt", i>>

\* variant: the password handed to the INSERT as it came in the body
RegisterHash_StorePlain(i) ==
    /\ acct[i].kind = "register"
    /\ acct[i].pc = "hash"
    /\ acct' = [acct EXCEPT ![i].pc = "insert",
                            ![i].hashed = [alg |-> "none", cost |-> 0, salt |-> <<>>,
                                           digest |-> acct[i].password]]
    /\ UNCHANGED <<users, userSeq, now, issued, acctFrame>>

\* hashedPassword = await bcrypt.hash(password, 10)
RegisterHash(i) ==
    /\ acct[i].kind = "register"
    /\ acct[i].pc = "hash"
    /\ acct' = [acct EXCEPT ![i].pc = "insert",
                            ![i].hashed = BcryptHash(acct[i].password, SaltRounds, FreshSalt(i))]
    /\ UNCHANGED <<users, userSeq, now, issued, acctFrame>>

\* variant: INSERT ... RETURNING *, the whole row in the response
RegisterInsert_ReturningStar(i) ==
    /\ acct[i].kind = "register"
    /\ acct[i].pc = "insert"
    /\ userSeq' = userSeq + 1
    /\ UNCHANGED <<now, issued, acctFrame>>
    /\ IF UniqueEmailViolated(acct[i].email)
         THEN /\ users' = users
              /\ Respond(i, 500, [error |-> "duplicate key value violates unique constraint"])
         ELSE /\ users' = users \cup {[id |-> userSeq + 1, email |-> acct[i].email,
                                        password |-> acct[i].hashed]}
              /\ Respond(i, 201, [message |-> "User created",
                                  user |-> [id |-> userSeq + 1, email |-> acct[i].email,
                                            password |-> acct[i].hashed]])

\* result = await pool.query(INSERT ... RETURNING id, email); res.status(201)
\* a unique violation makes the query reject: catch -> 500 with err.message.
\* nextval() of the SERIAL is consumed by the failed INSERT as well.
RegisterInsert(i) ==
    /\ acct[i].kind = "register"
    /\ acct[i].pc = "insert"
    /\ userSeq' = userSeq + 1
    /\ UNCHANGED <<now, issued, acctFrame>>
    /\ IF UniqueEmailViolated(acct[i].email)
         THEN /\ users' = users
              /\ Respond(i, 500, [error |-> "duplicate key value violates unique constraint"])
         ELSE /\ users' = users \cup {[id |-> userSeq + 1, email |-> acct[i].email,
                                        password |-> acct[i].hashed]}
              /\ Respond(i, 201, [message |-> "User created",
                                  user |-> [id |-> userSeq + 1, email |-> acct[i].email]])

(* ------------------------------- /login -------------------------------- *)
\* variant: an unknown email answered differently from a wrong password
LoginSelect_UserNotFound(i) ==
    /\ acct[i].kind = "login"
    /\ acct[i].pc = "select"
    /\ IF SelectUsersByEmail(acct[i].email) = {}
         THEN Respond(i, 404, [error |-> "User not found"])
         ELSE \E u \in SelectUsersByEmail(acct[i].email) :
                 acct' = [acct EXCEPT ![i].pc = "compare", ![i].row = u]
    /\ UNCHANGED <<users, userSeq, now, issued, acctFrame>>

\* result = await pool.query(SELECT ...); if rows.length === 0 return 401
LoginSelect(i) ==
    /\ acct[i].kind = "login"
    /\ acct[i].pc = "select"
    /\ IF SelectUsersByEmail(acct[i].email) = {}
         THEN Respond(i, 401, [error |-> "Invalid credentials"])
         ELSE \E u \in SelectUsersByEmail(acct[i].email) :
                 acct' = [acct EXCEPT ![i].pc = "compare", ![i].row = u]
    /\ UNCHANGED <<users, userSeq, now, issued, acctFrame>>

\* isValid = await bcrypt.compare(password, user.password); 401 or
\* token = jwt.sign(...); res.json({ token, user: { id, email } })
LoginCompare(i) ==
    /\ acct[i].kind = "login"
    /\ acct[i].pc = "compare"
    /\ IF ~BcryptCompare(acct[i].password, acct[i].row.password)
         THEN /\ Respond(i, 401, [error |-> "Invalid credentials"])
              /\ issued' = issued
         ELSE LET token == JwtSign(acct[i].row.id, JwtSecret, now) IN
              /\ Respond(i, 200, [token |-> token,
                                  user |-> [id |-> acct[i].row.id,
                                            email |-> acct[i].row.email]])
              /\ issued' = issued \cup {token}
    /\ UNCHANGED <<users, userSeq, now, acctFrame>>

(* -------------------------------- clock -------------------------------- *)
Tick ==
    /\ now < MaxTime
    /\ now' = now + 1
    /\ UNCHANGED <<users, userSeq, acct, issued, mw, memVars, dbVars, sideVars>>

(* ------------------------- authenticateToken --------------------------- *)
UserIds == {u.id : u \in users}

\* what a client can put in the header: a token it was issued, an issued
\* token with an edited payload or a replaced signature, a token signed
\* with a key of its own, or junk
TamperedTokens ==
    UNION {{[t EXCEPT !.userId = u] : u \in UserIds \ {t.userId}}
            \cup {[t EXCEPT !.exp = t.exp + TokenLifetime]}
            \cup {[t EXCEPT !.sig = HmacSha256(t.userId, t.iat, t.exp, OtherSecret)]}
           : t \in issued}
ForgedTokens == {JwtSign(u, OtherSecret, now) : u \in UserIds}
PresentableTokens == issued \cup TamperedTokens \cup ForgedTokens \cup {Garbage}

PresentableHeaders ==
    {NoHeader, HeaderOf(<<>>), HeaderOf(<<Word("Bearer")>>), HeaderOf(<<Word("Bearer"), SP>>)}
    \cup {HeaderOf(<<Word("Bearer"), SP, t>>) : t \in PresentableTokens}
    \cup {HeaderOf(<<t>>) : t \in issued}
    \cup {HeaderOf(<<Word("Bearer"), SP, SP, t>>) : t \in issued}
    \cup {HeaderOf(<<Word("Basic"), SP, t>>) : t \in issued}

\* authenticateToken runs to completion before the next request is looked
\* at (no await in it), so one request is in the middleware at a time
MwFinished ==
    \/ mw.state \in {"idle", "Rejected"}
    \/ mw.state = "Authorized" /\ mw.handlerRuns = mw.nextCalls

\* a request to a protected route arrives
MwArrive(header) ==
    /\ MwFinished
    /\ mw' = [IdleMw EXCEPT !.state = "Unauthenticated", !.header = header]
    /\ UNCHANGED <<now, authFrame>>

\* steps 1-3: read the header, take the part after the first space,
\* 401 when there is none
MwExtract ==
    /\ mw.state = "Unauthenticated"
    /\ LET token == ExtractToken(mw.header) IN
         IF token = <<>>
           THEN mw' = [mw EXCEPT !.state = "Rejected", !.status = 401,
                                 !.body = [error |-> "Access token required"],
                                 !.errCalls = @ + 1]
           ELSE mw' = [mw EXCEPT !.state = "TokenExtracted", !.token = token]
    /\ UNCHANGED <<now, authFrame>>

\* variant: the error branch of the callback without its return
MwVerify_NoReturn ==
    /\ mw.state = "TokenExtracted"
    /\ LET err == JwtVerifyString(mw.token, JwtSecret, now) IN
         IF err # "ok"
           THEN mw' = [mw EXCEPT !.state = "Rejected", !.status = 403,
                                 !.body = [error |-> "Invalid or expired token"],
                                 !.errCalls = @ + 1, !.verdict = err,
                                 !.verifiedAt = now, !.nextCalls = @ + 1]
           ELSE mw' = [mw EXCEPT !.state = "Authorized", !.verdict = "ok",
                                 !.verifiedAt = now,
                                 !.user = [userId |-> mw.token[1].userId],
                                 !.nextCalls = @ + 1]
    /\ UNCHANGED <<now, authFrame>>

\* variant: every rejection of the middleware answered 401
MwVerify_Always401 ==
    /\ mw.state = "TokenExtracted"
    /\ LET err == JwtVerifyString(mw.token, JwtSecret, now) IN
         IF err # "ok"
           THEN mw' = [mw EXCEPT !.state = "Rejected", !.status = 401,
                                 !.body = [error |-> "Invalid or expired token"],
                                 !.errCalls = @ + 1, !.verdict = err,
                                 !.verifiedAt = now]
           ELSE mw' = [mw EXCEPT !.state = "Authorized", !.verdict = "ok",
                                 !.verifiedAt = now,
                                 !.user = [userId |-> mw.token[1].userId],
                                 !.nextCalls = @ + 1]
    /\ UNCHANGED <<now, authFrame>>

\* steps 4-6: the jwt.verify callback: 403 on err, else req.user = payload; next()
MwVerify ==
    /\ mw.state = "TokenExtracted"
    /\ LET err == JwtVerifyString(mw.token, JwtSecret, now) IN
         IF err # "ok"
           THEN mw' = [mw EXCEPT !.state = "Rejected", !.status = 403,
                                 !.body = [error |-> "Invalid or expired token"],
                                 !.errCalls = @ + 1, !.verdict = err,
                                 !.verifiedAt = now]
           ELSE mw' = [mw EXCEPT !.state = "Authorized", !.verdict = "ok",
                                 !.verifiedAt = now,
                                 !.user = [userId |-> mw.token[1].userId],
                                 !.nextCalls = @ + 1]
    /\ UNCHANGED <<now, authFrame>>

\* the route handler behind the middleware: runs once per next()
ProtectedHandler ==
    /\ mw.nextCalls > mw.handlerRuns
    /\ mw' = [mw EXCEPT !.handlerRuns = @ + 1, !.status = 200,
                         !.body = [rows |-> {}]]
    /\ UNCHANGED <<now, authFrame>>

(* ----------------------- in-memory task server ------------------------- *)
\* variant: a truthy flag taken for true (t => t.completed)
CompletedIsTrue_Truthy(t) == t.completed # Bool(FALSE) /\ t.completed # Undefined

\* the predicates of tasks.filter(...)
CompletedIsTrue(t) == t.completed = Bool(TRUE)
CompletedIsFalse(t) == t.completed = Bool(FALSE)

\* tasks.findIndex(t => t.id === parseInt(id)): first match, 0 for -1
FindIndex(parsed) ==
    IF \E k \in 1..Len(memTasks) : IdEquals(memTasks[k].id, parsed)
      THEN CHOOSE k \in 1..Len(memTasks) :
               /\ IdEquals(memTasks[k].id, parsed)
               /\ \A m \in 1..(k - 1) : ~IdEquals(memTasks[m].id, parsed)
      ELSE 0

\* tasks.splice(index, 1)
Splice(seq, index) == SubSeq(seq, 1, index - 1) \o SubSeq(seq, index + 1, Len(seq))

\* res.status(code).json(json); for stating properties the response is kept
\* with the request's title (POST), id (GET, PUT, DELETE) or filter (GET
\* /tasks), and whether the tasks array changed
MemRespond(op, code, json, req, changed) ==
    memRes' = [op |-> op, status |-> code, body |-> json, req |-> req,
               changed |-> changed]

\* GET /tasks?completed=...
MemList(completed) ==
    /\ IF completed = Str("true")
         THEN MemRespond("list", 200,
                  [rows |-> SelectSeq(memTasks, CompletedIsTrue)],
                  completed, FALSE)
         ELSE IF completed = Str("false")
         THEN MemRespond("list", 200,
                  [rows |-> SelectSeq(memTasks, CompletedIsFalse)],
                  completed, FALSE)
         ELSE MemRespond("list", 200, [rows |-> memTasks],
                  completed, FALSE)
    /\ UNCHANGED <<memTasks, now, memFrame>>

\* GET /tasks/:id
MemGet(id) ==
    /\ LET index == FindIndex(ParseInt(id)) IN
         IF index # 0
           THEN MemRespond("get", 200, [task |-> memTasks[index]], id, FALSE)
           ELSE MemRespond("get", 404, [error |-> "Task not found"], id, FALSE)
    /\ UNCHANGED <<memTasks, now, memFrame>>

\* variant: the new task answered but never pushed onto the array
MemCreate_NotStored(title, description) ==
    /\ Len(memTasks) < MaxMemTasks
    /\ LET newTask == [id |-> Len(memTasks) + 1, title |-> title,
                        description |-> Undefined, completed |-> Bool(FALSE),
                        createdAt |-> now, updatedAt |-> now]
       IN /\ memTasks' = memTasks
          /\ MemRespond("create", 201, [task |-> newTask],
                         [title |-> title, description |-> description], TRUE)
    /\ UNCHANGED <<now, memFrame>>

\* POST /tasks/: only req.body.title is read; the response is kept with the
\* title and description of the request body
MemCreate(title, description) ==
    /\ Len(memTasks) < MaxMemTasks
    /\ LET newTask == [id |-> Len(memTasks) + 1, title |-> title,
                        description |-> Undefined, completed |-> Bool(FALSE),
                        createdAt |-> now, updatedAt |-> now]
       IN /\ memTasks' = Append(memTasks, newTask)
          /\ MemRespond("create", 201, [task |-> newTask],
                         [title |-> title, description |-> description], TRUE)
    /\ UNCHANGED <<now, memFrame>>

\* DELETE /tasks/:id
MemDelete(id) ==
    /\ LET index == FindIndex(ParseInt(id)) IN
         IF index # 0
           THEN /\ memTasks' = Splice(memTasks, index)
                /\ MemRespond("delete", 200, [message |-> "Task deleted"], id, TRUE)
           ELSE /\ memTasks' = memTasks
                /\ MemRespond("delete", 404, [error |-> "Task not found"], id, FALSE)
    /\ UNCHANGED <<now, memFrame>>

\* PUT /tasks/:id
MemUpdate(id, title, description, completed) ==
    /\ LET index == FindIndex(ParseInt(id))
       IN IF index # 0
            THEN LET task == memTasks[index]
                     updated ==
                         [task EXCEPT
                            !.title = IF title # Undefined THEN title ELSE @,
                            !.description = IF description # Undefined THEN description ELSE @,
                            !.completed = IF completed # Undefined THEN completed ELSE @,
                            !.updatedAt = now]
                 IN /\ memTasks' = [memTasks EXCEPT ![index] = updated]
                    /\ MemRespond("update", 200, [task |-> updated], id,
                                   memTasks' # memTasks)
            ELSE /\ memTasks' = memTasks
                 /\ MemRespond("update", 404, [error |-> "Task not found"], id, FALSE)
    /\ UNCHANGED <<now, memFrame>>

\* the clock of the in-memory server (new Date())
MemTick ==
    /\ now < MaxMemTime
    /\ now' = now + 1
    /\ UNCHANGED <<memVars, memFrame>>

\* request inputs
\* a title is kept as its characters: "milk", "", two spaces, or absent
Titles == {Str(<<"m", "i", "l", "k">>), Str(<<>>), Str(<<" ", " ">>), Undefined}
Descriptions == {Str("2 litres"), Undefined}
\* bodies of PUT /tasks/:id: each of title, description, completed present or not
PutBodies ==
    {[title |-> Undefined, description |-> Undefined, completed |-> Undefined],
     [title |-> Str(<<"m", "i", "l", "k">>), description |-> Undefined, completed |-> Undefined],
     [title |-> Undefined, description |-> Str("2 litres"), completed |-> Undefined],
     [title |-> Undefined, description |-> Undefined, completed |-> Bool(TRUE)],
     [title |-> Undefined, description |-> Undefined, completed |-> Bool(FALSE)],
     [title |-> Undefined, description |-> Undefined, completed |-> Str("yes")],
     [title |-> Str(<<" ", " ">>), description |-> Str("2 litres"), completed |-> Bool(TRUE)]}
CompletedQueries == {Str("true"), Str("false"), Undefined}
IdParams == {<<DigitChars[k + 1]>> : k \in 1..(MaxMemTasks + 1)}
            \cup {<<"1", "x">>, <<"x">>}

NextMem ==
    \/ \E c \in CompletedQueries : MemList(c)
    \/ \E id \in IdParams : MemGet(id)
    \/ \E t \in Titles, d \in Descriptions : MemCreate(t, d)
    \/ \E id \in IdParams : MemDelete(id)
    \/ \E id \in IdParams, b \in PutBodies :
           MemUpdate(id, b.title, b.description, b.completed)
    \/ MemTick

SpecMem == Init /\ [][NextMem]_vars

(* ------------------- task routes over PostgreSQL ---------------------- *)
\* pg: an undefined parameter is sent as NULL
PgParam(v) == IF v = Undefined THEN Null ELSE v

\* the text accepted by an integer column: digits only
PgIsInteger(str) == str # <<>> /\ \A k \in 1..Len(str) : IsDigit(str[k])

\* the input of a BOOLEAN column: 'yes' reads as true
PgBoolean(v) ==
    IF v = Undefined THEN Null
    ELSE IF v = Str("yes") THEN Bool(TRUE)
    ELSE v

\* rows WHERE id = $n
TasksById(id) ==
    IF PgIsInteger(id) THEN {t \in tasks : t.id = ParseDigits(id, 0)} ELSE {}
OwnerOf(id) == IF TasksById(id) = {} THEN 0 ELSE (CHOOSE t \in TasksById(id) : TRUE).user_id

TaskRespond(op, caller, code, json, targetOwner, changed) ==
    taskRes' = [op |-> op, caller |-> caller, status |-> code, body |-> json,
                targetOwner |-> targetOwner, changed |-> changed]

\* the orders in which ORDER BY "createdAt" DESC can return a set of rows
CreatedAtDesc(rows) ==
    {f \in [1..Cardinality(rows) -> rows] :
        /\ \A i, j \in DOMAIN f : i # j => f[i] # f[j]
        /\ \A i, j \in DOMAIN f : i < j => f[i].createdAt >= f[j].createdAt}

\* GET /tasks behind authenticateToken: caller is req.user.userId
TaskList(caller) ==
    /\ \E rows \in CreatedAtDesc({t \in tasks : t.user_id = caller}) :
          TaskRespond("list", caller, 200, [rows |-> rows], 0, FALSE)
    /\ UNCHANGED <<tasks, taskSeq, now, dbFrame>>

\* GET /tasks/:id: the query names the id only, and the route takes no token
TaskGet(caller, id) ==
    /\ IF ~PgIsInteger(id)
         THEN TaskRespond("get", caller, 500,
                  [error |-> "invalid input syntax for type integer"], 0, FALSE)
         ELSE IF TasksById(id) = {}
         THEN TaskRespond("get", caller, 404, [error |-> "Task not found"], 0, FALSE)
         ELSE \E t \in TasksById(id) :
                 TaskRespond("get", caller, 200, [task |-> t], OwnerOf(id), FALSE)
    /\ UNCHANGED <<tasks, taskSeq, now, dbFrame>>

\* variant: the INSERT of the route before authentication was added,
\* INSERT INTO tasks (title, description): the row has no owner (0)
TaskCreate_NoUserId(caller, title, description) ==
    /\ taskSeq < MaxDbTasks
    /\ taskSeq' = taskSeq + 1
    /\ IF PgParam(title) = Null
         THEN /\ tasks' = tasks
              /\ TaskRespond("create", caller, 500,
                     [error |-> "null value in column \"title\" violates not-null constraint"],
                     0, FALSE)
         ELSE LET row == [id |-> taskSeq + 1, title |-> title,
                          description |-> PgParam(description),
                          completed |-> Bool(FALSE), createdAt |-> now,
                          updatedAt |-> now, user_id |-> 0]
              IN /\ tasks' = tasks \cup {row}
                 /\ TaskRespond("create", caller, 201, [task |-> row], 0, TRUE)
    /\ UNCHANGED <<now, dbFrame>>

\* POST /tasks behind authenticateToken: user_id is req.user.userId;
\* title is NOT NULL, and the id is drawn before the constraint is checked
TaskCreate(caller, title, description) ==
    /\ taskSeq < MaxDbTasks
    /\ taskSeq' = taskSeq + 1
    /\ IF PgParam(title) = Null
         THEN /\ tasks' = tasks
              /\ TaskRespond("create", caller, 500,
                     [error |-> "null value in column \"title\" violates not-null constraint"],
                     0, FALSE)
         ELSE LET row == [id |-> taskSeq + 1, title |-> title,
                          description |-> PgParam(description),
                          completed |-> Bool(FALSE), createdAt |-> now,
                          updatedAt |-> now, user_id |-> caller]
              IN /\ tasks' = tasks \cup {row}
                 /\ TaskRespond("create", caller, 201, [task |-> row], 0, TRUE)
    /\ UNCHANGED <<now, dbFrame>>

\* variant: the statement stamping "createdAt" = NOW() instead of "updatedAt"
TaskUpdate_StampsCreated(caller, id, title, completed) ==
    /\ LET hit == {t \in TasksById(id) : t.user_id = caller} IN
         IF ~PgIsInteger(id)
           THEN /\ tasks' = tasks
                /\ TaskRespond("update", caller, 500,
                       [error |-> "invalid input syntax for type integer"], 0, FALSE)
         ELSE IF hit = {}
           THEN /\ tasks' = tasks
                /\ TaskRespond("update", caller, 404, [error |-> "Task not found"],
                                OwnerOf(id), FALSE)
         ELSE IF PgParam(title) = Null
           THEN /\ tasks' = tasks
                /\ TaskRespond("update", caller, 500,
                       [error |-> "null value in column \"title\" violates not-null constraint"],
                       OwnerOf(id), FALSE)
         ELSE \E t \in hit :
                LET row == [t EXCEPT !.title = title,
                                     !.completed = PgBoolean(completed),
                                     !.createdAt = now]
                IN /\ tasks' = (tasks \ {t}) \cup {row}
                   /\ TaskRespond("update", caller, 200, [task |-> row],
                                   OwnerOf(id), tasks' # tasks)
    /\ UNCHANGED <<taskSeq, now, dbFrame>>

\* PUT /tasks/:id behind authenticateToken: WHERE id = $3 AND user_id = $4
TaskUpdate(caller, id, title, completed) ==
    /\ LET hit == {t \in TasksById(id) : t.user_id = caller} IN
         IF ~PgIsInteger(id)
           THEN /\ tasks' = tasks
                /\ TaskRespond("update", caller, 500,
                       [error |-> "invalid input syntax for type integer"], 0, FALSE)
         ELSE IF hit = {}
           THEN /\ tasks' = tasks
                /\ TaskRespond("update", caller, 404, [error |-> "Task not found"],
                                OwnerOf(id), FALSE)
         ELSE IF PgParam(title) = Null
           THEN /\ tasks' = tasks
                /\ TaskRespond("update", caller, 500,
                       [error |-> "null value in column \"title\" violates not-null constraint"],
                       OwnerOf(id), FALSE)
         ELSE \E t \in hit :
                LET row == [t EXCEPT !.title = title,
                                     !.completed = PgBoolean(completed),
                                     !.updatedAt = now]
                IN /\ tasks' = (tasks \ {t}) \cup {row}
                   /\ TaskRespond("update", caller, 200, [task |-> row],
                                   OwnerOf(id), tasks' # tasks)
    /\ UNCHANGED <<taskSeq, now, dbFrame>>

\* variant: the update split in two statements, of which this request has
\* run the first (SET title) when another request's update comes in
TaskUpdateServer_TitleFirst(caller, id, title, completed) ==
    /\ LET hit == {t \in TasksById(id) : t.user_id = caller} IN
         IF ~PgIsInteger(id)
           THEN /\ tasks' = tasks
                /\ TaskRespond("update", caller, 500,
                       [error |-> "invalid input syntax for type integer"], 0, FALSE)
         ELSE IF hit = {}
           THEN /\ tasks' = tasks
                /\ TaskRespond("update", caller, 404, [error |-> "Task not found"],
                                OwnerOf(id), FALSE)
         ELSE IF PgParam(title) = Null
           THEN /\ tasks' = tasks
                /\ TaskRespond("update", caller, 500,
                       [error |-> "null value in column \"title\" violates not-null constraint"],
                       OwnerOf(id), FALSE)
         ELSE \E t \in hit :
                LET row == [t EXCEPT !.title = title]
                IN /\ tasks' = (tasks \ {t}) \cup {row}
                   /\ TaskRespond("update", caller, 200, [task |-> row],
                                   OwnerOf(id), tasks' # tasks)
    /\ UNCHANGED <<taskSeq, now, dbFrame>>

\* PUT /tasks/:id of the complete server.js: the same statement without
\* "updatedAt" = NOW()
TaskUpdateServer(caller, id, title, completed) ==
    /\ LET hit == {t \in TasksById(id) : t.user_id = caller} IN
         IF ~PgIsInteger(id)
           THEN /\ tasks' = tasks
                /\ TaskRespond("update", caller, 500,
                       [error |-> "invalid input syntax for type integer"], 0, FALSE)
         ELSE IF hit = {}
           THEN /\ tasks' = tasks
                /\ TaskRespond("update", caller, 404, [error |-> "Task not found"],
                                OwnerOf(id), FALSE)
         ELSE IF PgParam(title) = Null
           THEN /\ tasks' = tasks
                /\ TaskRespond("update", caller, 500,
                       [error |-> "null value in column \"title\" violates not-null constraint"],
                       OwnerOf(id), FALSE)
         ELSE \E t \in hit :
                LET row == [t EXCEPT !.title = title,
                                     !.completed = PgBoolean(completed)]
                IN /\ tasks' = (tasks \ {t}) \cup {row}
                   /\ TaskRespond("update", caller, 200, [task |-> row],
                                   OwnerOf(id), tasks' # tasks)
    /\ UNCHANGED <<taskSeq, now, dbFrame>>

\* variant: the DELETE without AND user_id = $2
TaskDelete_NoOwnerFilter(caller, id) ==
    /\ LET hit == TasksById(id) IN
         IF ~PgIsInteger(id)
           THEN /\ tasks' = tasks
                /\ TaskRespond("delete", caller, 500,
                       [error |-> "invalid input syntax for type integer"], 0, FALSE)
         ELSE IF hit = {}
           THEN /\ tasks' = tasks
                /\ TaskRespond("delete", caller, 404, [error |-> "Task not found"],
                                OwnerOf(id), FALSE)
         ELSE /\ tasks' = tasks \ hit
              /\ TaskRespond("delete", caller, 200, [message |-> "Task deleted"],
                              OwnerOf(id), TRUE)
    /\ UNCHANGED <<taskSeq, now, dbFrame>>

\* DELETE /tasks/:id behind authenticateToken: WHERE id = $1 AND user_id = $2
TaskDelete(caller, id) ==
    /\ LET hit == {t \in TasksById(id) : t.user_id = caller} IN
         IF ~PgIsInteger(id)
           THEN /\ tasks' = tasks
                /\ TaskRespond("delete", caller, 500,
                       [error |-> "invalid input syntax for type integer"], 0, FALSE)
         ELSE IF hit = {}
           THEN /\ tasks' = tasks
                /\ TaskRespond("delete", caller, 404, [error |-> "Task not found"],
                                OwnerOf(id), FALSE)
         ELSE /\ tasks' = tasks \ hit
              /\ TaskRespond("delete", caller, 200, [message |-> "Task deleted"],
                              OwnerOf(id), TRUE)
    /\ UNCHANGED <<taskSeq, now, dbFrame>>

\* the database clock (NOW())
DbTick ==
    /\ now < MaxDbTime
    /\ now' = now + 1
    /\ UNCHANGED <<dbVars, dbFrame>>

Next ==
    \/ \E i \in AcctReqs, e \in Emails, p \in Passwords : AcctArrive(i, "register", e, p)
    \/ \E i \in AcctReqs : RegisterSelect(i)
    \/ \E i \in AcctReqs : RegisterHash(i)
    \/ \E i \in AcctReqs : RegisterInsert(i)
    \/ \E i \in AcctReqs, e \in Emails, p \in Passwords : AcctArrive(i, "login", e, p)
    \/ \E i \in AcctReqs : LoginSelect(i)
    \/ \E i \in AcctReqs : LoginCompare(i)

Spec == Init /\ [][Next]_vars

(* --------- the protected routes, over a database with two users -------- *)
InitAuth ==
    /\ users = {[id |-> 1, email |-> "a@x.com",
                 password |-> BcryptHash("pw1", SaltRounds, FreshSalt(1))],
                [id |-> 2, email |-> "A@x.com",
                 password |-> BcryptHash("pw2", SaltRounds, FreshSalt(2))]}
    /\ userSeq = 2
    /\ acct = [i \in AcctReqs |-> IdleReq]
    /\ now = 0
    /\ issued = {}
    /\ mw = IdleMw
    /\ memTasks = <<>>
    /\ memRes = NoMemRes
    /\ tasks = {}
    /\ taskSeq = 0
    /\ taskRes = NoTaskRes
    /\ localStorage = NoItem
    /\ http = IdleHttp

AuthLogins == {i \in AcctReqs : i <= MaxAuthLogins}

NextAuth ==
    \/ \E i \in AuthLogins, e \in Emails, p \in Passwords : AcctArrive(i, "login", e, p)
    \/ \E i \in AuthLogins : LoginSelect(i)
    \/ \E i \in AuthLogins : LoginCompare(i)
    \/ Tick
    \/ \E h \in PresentableHeaders : MwArrive(h)
    \/ MwExtract
    \/ MwVerify
    \/ ProtectedHandler

SpecAuth == InitAuth /\ [][NextAuth]_vars

(* ------------- the task routes, over a database with two users --------- *)
DbIdParams == {<<DigitChars[k + 1]>> : k \in 1..MaxDbTasks} \cup {<<"1", "x">>}

\* bodies of the authenticated routes: the title is a string, empty or
\* absent; PUT reads title and completed only
DbPostBodies ==
    {[title |-> Str(<<"m", "i", "l", "k">>), description |-> Str("2 litres")],
     [title |-> Str(<<>>), description |-> Undefined],
     [title |-> Undefined, description |-> Undefined]}
DbPutBodies ==
    {[title |-> Str(<<"m", "i", "l", "k">>), completed |-> Bool(TRUE)],
     [title |-> Str(<<"m", "i", "l", "k">>), completed |-> Undefined],
     [title |-> Undefined, completed |-> Bool(TRUE)],
     [title |-> Str(<<>>), completed |-> Str("yes")]}

NextTasks ==
    \/ \E u \in UserIds : TaskList(u)
    \/ \E u \in UserIds, id \in DbIdParams : TaskGet(u, id)
    \/ \E u \in UserIds, b \in DbPostBodies : TaskCreate(u, b.title, b.description)
    \/ \E u \in UserIds, id \in DbIdParams, b \in DbPutBodies :
           TaskUpdate(u, id, b.title, b.completed)
    \/ \E u \in UserIds, id \in DbIdParams, b \in DbPutBodies :
           TaskUpdateServer(u, id, b.title, b.completed)
    \/ \E u \in UserIds, id \in DbIdParams : TaskDelete(u, id)
    \/ DbTick

SpecTasks == InitAuth /\ [][NextTasks]_vars

\* the middleware is synchronous code on the event loop: once a request is
\* in it, each of its steps is taken
FairSpecAuth ==
    /\ SpecAuth
    /\ WF_vars(MwExtract)
    /\ WF_vars(MwVerify)
    /\ WF_vars(ProtectedHandler)

(* ------------------ /register and /login with faults ------------------ *)
\* err.message of a pool.query that could not reach the database
ConnectionRefused == "connect ECONNREFUSED 127.0.0.1:5432"

\* await pool.query(...) rejects because the database is unreachable: the
\* handler's catch answers 500 with err.message; no statement has run
QueryFault(i) ==
    /\ \/ acct[i].kind = "register" /\ acct[i].pc \in {"select", "insert"}
       \/ acct[i].kind = "login" /\ acct[i].pc = "select"
    /\ Respond(i, 500, [error |-> ConnectionRefused])
    /\ UNCHANGED <<users, userSeq, now, issued, acctFrame>>

FaultReqs == {i \in AcctReqs : i <= MaxFaultReqs}

\* the continuation of request i after the promise it awaits has settled
HandlerStep(i) ==
    \/ RegisterSelect(i)
    \/ RegisterHash(i)
    \/ RegisterInsert(i)
    \/ LoginSelect(i)
    \/ LoginCompare(i)
    \/ QueryFault(i)

NextFault ==
    \/ \E i \in FaultReqs, e \in Emails, p \in Passwords : AcctArrive(i, "register", e, p)
    \/ \E i \in FaultReqs, e \in Emails, p \in Passwords : AcctArrive(i, "login", e, p)
    \/ \E i \in FaultReqs : RegisterSelect(i)
    \/ \E i \in FaultReqs : RegisterHash(i)
    \/ \E i \in FaultReqs : RegisterInsert(i)
    \/ \E i \in FaultReqs : LoginSelect(i)
    \/ \E i \in FaultReqs : LoginCompare(i)
    \/ \E i \in FaultReqs : QueryFault(i)

SpecFault == Init /\ [][NextFault]_vars

\* every awaited promise settles and the event loop runs its continuation
FairSpecFault == SpecFault /\ \A i \in FaultReqs : WF_vars(HandlerStep(i))

(* ----------------- backend/http.js: the logging server ----------------- *)
\* the 'request' event: the handler logs method, url and headers, starts
\* with body = '' and registers the 'data' and 'end' listeners. The request
\* before it, if any, has had its 'end'.
HttpRequest(method, url) ==
    /\ http.phase \in {"idle", "ended"}
    /\ http.served < MaxHttpReqs
    /\ http' = [http EXCEPT !.phase = "receiving", !.method = method,
                            !.url = url, !.body = <<>>, !.statusCode = 0,
                            !.finished = FALSE, !.served = @ + 1]
    /\ UNCHANGED <<users, userSeq, acct, now, issued, mw, memVars, dbVars, localStorage>>

\* req.on('data'): body += chunk.toString()
HttpData(chunk) ==
    /\ http.phase = "receiving"
    /\ Len(http.body) < MaxBodyLen
    /\ http' = [http EXCEPT !.body = @ \o chunk]
    /\ UNCHANGED <<users, userSeq, acct, now, issued, mw, memVars, dbVars, localStorage>>

\* req.on('end'): console.log('Body:', body); res.writeHead(200, ...) and
\* nothing more: the response is left open
HttpEnd ==
    /\ http.phase = "receiving"
    /\ http' = [http EXCEPT !.phase = "ended", !.statusCode = 200,
                            !.open = @ + 1]
    /\ UNCHANGED <<users, userSeq, acct, now, issued, mw, memVars, dbVars, localStorage>>

HttpMethods == {"GET", "POST"}
HttpUrls == {"/", "/tasks"}
HttpChunks == {<<"a">>, <<"b">>}

NextHttp ==
    \/ \E m \in HttpMethods, u \in HttpUrls : HttpRequest(m, u)
    \/ \E c \in HttpChunks : HttpData(c)
    \/ HttpEnd

SpecHttp == Init /\ [][NextHttp]_vars

\* a request that has been sent is received in full: its 'end' is emitted
FairSpecHttp == SpecHttp /\ WF_vars(HttpEnd)

(* ------------------- the browser's side of a session ------------------- *)
\* login(): if (response.ok) localStorage.setItem('token', data.token)
ClientStore(i) ==
    /\ acct[i].kind = "login" /\ acct[i].pc = "done" /\ acct[i].status = 200
    /\ localStorage # acct[i].body.token
    /\ localStorage' = acct[i].body.token
    /\ UNCHANGED <<users, userSeq, acct, now, issued, mw, memVars, dbVars, http>>

\* logout(): localStorage.removeItem('token'); no request goes to the server
Logout ==
    /\ localStorage # NoItem
    /\ localStorage' = NoItem
    /\ UNCHANGED <<users, userSeq, acct, now, issued, mw, memVars, dbVars, http>>

SessionLogins == {i \in AcctReqs : i <= MaxSessionLogins}

NextSession ==
    \/ \E i \in SessionLogins, e \in Emails, p \in Passwords : AcctArrive(i, "login", e, p)
    \/ \E i \in SessionLogins : LoginSelect(i)
    \/ \E i \in SessionLogins : LoginCompare(i)
    \/ \E i \in SessionLogins : ClientStore(i)
    \/ Logout
    \/ Tick

SpecSession == InitAuth /\ [][NextSession]_vars

(* ====================== properties of /register, /login ================ *)
RegisterDone(i) == acct[i].kind = "register" /\ acct[i].pc = "done"
LoginDone(i) == acct[i].kind = "login" /\ acct[i].pc = "done"

\* C1: among the registrations of one email at most one is answered 201,
\* under every interleaving of SELECT / hash / INSERT, and the users table
\* never holds two rows with the same email.
C1_AtMostOneSuccessPerEmail ==
    \A e \in Emails :
        /\ Cardinality({i \in AcctReqs : /\ RegisterDone(i)
                                         /\ acct[i].email = e
                                         /\ acct[i].status = 201}) <= 1
        /\ Cardinality(SelectUsersByEmail(e)) <= 1

\* two registrations of one email raced past the SELECT; one won the INSERT
C1_Witness ==
    \E i, j \in AcctReqs :
        /\ i # j
        /\ RegisterDone(i) /\ RegisterDone(j)
        /\ acct[i].email = acct[j].email
        /\ acct[i].hashed # NoHash /\ acct[j].hashed # NoHash
        /\ acct[i].status = 201
        /\ acct[j].status # 201

\* C2: a registration that does not succeed (email already registered, or
\* race lost) is always answered 400 'User already exists', never with
\* another error kind.
C2_LoserAlwaysConflict ==
    \A i \in AcctReqs :
        (RegisterDone(i) /\ acct[i].status # 201) =>
            /\ acct[i].status = 400
            /\ acct[i].body = [error |-> "User already exists"]

\* C6: a login that arrives after the 201 of a registration with the same
\* email and password is answered 200 with a token that verify accepts and
\* that carries the id of the user that registration created.
C6_RegisterThenLogin ==
    \A i \in AcctReqs :
        (LoginDone(i) /\ <<acct[i].email, acct[i].password>> \in acct[i].after) =>
            /\ acct[i].status = 200
            /\ acct[i].body.token \in issued
            /\ JwtVerify(acct[i].body.token, JwtSecret, now) = "ok"
            /\ \E j \in AcctReqs :
                  /\ RegisterDone(j) /\ acct[j].status = 201
                  /\ acct[j].email = acct[i].email
                  /\ acct[j].body.user.id = acct[i].body.token.userId
                  /\ acct[j].body.user.id = acct[i].body.user.id

C6_Witness ==
    \E i \in AcctReqs :
        /\ LoginDone(i)
        /\ <<acct[i].email, acct[i].password>> \in acct[i].after
        /\ acct[i].status = 200
        /\ userSeq > 1

\* C7: a login that fails because the email is unknown and a login that
\* fails because the password is wrong get the same response, 401 with the
\* generic 'Invalid credentials'.
LoginFailed(i) == LoginDone(i) /\ acct[i].status # 200
C7_FailedLoginIndistinguishable ==
    \A i, j \in AcctReqs :
        (LoginFailed(i) /\ LoginFailed(j)) =>
            /\ acct[i].status = acct[j].status
            /\ acct[i].body = acct[j].body
            /\ acct[i].status = 401
            /\ acct[i].body = [error |-> "Invalid credentials"]

\* one login failed on an unknown email, another on a wrong password
C7_Witness ==
    \E i, j \in AcctReqs :
        /\ LoginFailed(i) /\ acct[i].row.id = 0
        /\ LoginFailed(j) /\ acct[j].row.id # 0
        /\ acct[i].body = acct[j].body

(* ==================== properties of authenticateToken ================== *)
MwNoToken == ExtractToken(mw.header) = <<>>
MwPastExtract == mw.state \notin {"idle", "Unauthenticated"}

\* C4: the handler of a protected route runs only for a request whose header
\* carried a token that verify accepted (issued by the server, not expired
\* when verified); a request without a credential is rejected with 401
\* 'Access token required', one whose token fails verification is rejected,
\* and in both cases the handler does not run.
C4_HandlerOnlyAfterVerify ==
    /\ (mw.handlerRuns > 0 \/ mw.nextCalls > 0) =>
          /\ mw.header.present
          /\ ~MwNoToken
          /\ Len(mw.token) = 1
          /\ mw.token[1] \in issued
          /\ mw.verifiedAt < mw.token[1].exp
          /\ mw.user.userId = mw.token[1].userId
    /\ (MwPastExtract /\ MwNoToken) =>
          /\ mw.state = "Rejected"
          /\ mw.status = 401
          /\ mw.body = [error |-> "Access token required"]
          /\ mw.handlerRuns = 0 /\ mw.nextCalls = 0
    /\ (mw.verdict \notin {"none", "ok"}) =>
          /\ mw.state = "Rejected"
          /\ mw.handlerRuns = 0 /\ mw.nextCalls = 0

\* the handler ran for a verified token, although forged tokens exist
C4_Witness ==
    /\ mw.handlerRuns = 1
    /\ mw.token[1] \in issued
    /\ now > 0

\* C5: at every time verify accepts a token iff it was signed by the server
\* (issued, untampered) and the time is before its expiration, which is issue
\* time plus the lifetime; tampered and foreign-signed tokens are rejected
\* at every time.
C5_ValidIffSignedAndUnexpired ==
    /\ \A t \in PresentableTokens :
          (JwtVerify(t, JwtSecret, now) = "ok") <=> (t \in issued /\ now < t.exp)
    /\ \A t \in issued :
          /\ t.exp = t.iat + TokenLifetime
          /\ (now >= t.exp) => JwtVerify(t, JwtSecret, now) = "TokenExpiredError"
    /\ \A t \in (TamperedTokens \cup ForgedTokens) \ issued :
          JwtVerify(t, JwtSecret, now) = "JsonWebTokenError"
    /\ (mw.verdict = "ok") <=>
          (mw.state = "Authorized" /\ mw.token[1] \in issued
                                   /\ mw.verifiedAt < mw.token[1].exp)

\* an issued token was presented at or after its expiration and refused
C5_Witness ==
    /\ mw.verdict = "TokenExpiredError"
    /\ mw.token[1] \in issued
    /\ mw.verifiedAt >= mw.token[1].iat + TokenLifetime

MwOutcomeConsistent ==
    /\ mw.nextCalls + mw.errCalls <= 1
    /\ (mw.state = "Authorized") <=> (mw.nextCalls = 1)
    /\ (mw.state = "Rejected") <=> (mw.errCalls = 1)
    /\ mw.handlerRuns <= mw.nextCalls
C9_ExactlyOneTerminal ==
    /\ []MwOutcomeConsistent
    /\ (mw.state \in {"Unauthenticated", "TokenExtracted"})
          ~> (mw.state \in {"Authorized", "Rejected"})

\* a request was rejected at the verify step, with a single response
C9_Witness ==
    /\ mw.state = "Rejected"
    /\ mw.verdict # "none"
    /\ mw.errCalls = 1 /\ mw.nextCalls = 0

(* ======================== properties of the task routes ================ *)
\* C3: a user's operations on a task of another user: get, update and delete
\* by id answer not-found, never hand out the task and leave it unchanged,
\* and a list holds only the caller's own tasks.
C3_OthersTaskNotFound ==
    /\ (/\ taskRes.op \in {"get", "update", "delete"}
        /\ taskRes.targetOwner \notin {0, taskRes.caller}) =>
          /\ taskRes.status = 404
          /\ taskRes.body = [error |-> "Task not found"]
          /\ ~taskRes.changed
    /\ (taskRes.op = "list") =>
          \A k \in DOMAIN taskRes.body.rows :
              taskRes.body.rows[k].user_id = taskRes.caller

\* title.trim() === '' for a string title, or no title at all
BlankTitle(title) ==
    \/ title = Undefined
    \/ title.t = "string" /\ \A k \in 1..Len(title.v) : title.v[k] = " "

\* C10: a create whose title is missing, empty or only whitespace is
\* answered 400 and adds no task.
C10_BlankTitleRejected ==
    (memRes.op = "create" /\ BlankTitle(memRes.req.title)) =>
        /\ memRes.status = 400
        /\ ~memRes.changed

\* C11: a create with a valid title is answered 201 with a task that has a
\* server-assigned id, completed = false and both timestamps set, and that
\* task is the one stored, whatever else the request body holds.
C11_CreateValidTitle ==
    (memRes.op = "create" /\ ~BlankTitle(memRes.req.title)) =>
        /\ memRes.status = 201
        /\ memRes.changed
        /\ memRes.body.task.id \in Nat \ {0}
        /\ memRes.body.task.title = memRes.req.title
        /\ memRes.body.task.completed = Bool(FALSE)
        /\ memRes.body.task.createdAt \in 0..now
        /\ memRes.body.task.updatedAt \in 0..now
        /\ Len(memTasks) > 0
        /\ memTasks[Len(memTasks)] = memRes.body.task

\* a second task was created from a body with a title and a description
C11_Witness ==
    /\ memRes.op = "create"
    /\ ~BlankTitle(memRes.req.title)
    /\ memRes.req.description # Undefined
    /\ memRes.status = 201
    /\ Len(memTasks) = 2

\* C12: a get of the id a create has just returned answers the task with
\* the title and description of the create request and completed = false.
C12_CreateThenGetRoundTrip ==
    [][(/\ memRes.op = "create" /\ memRes.status = 201
        /\ memRes'.op = "get"
        /\ ParseInt(memRes'.req) = [nan |-> FALSE, val |-> memRes.body.task.id])
       => (/\ memRes'.status = 200
           /\ memRes'.body.task.title = memRes.req.title
           /\ memRes'.body.task.description = memRes.req.description
           /\ memRes'.body.task.completed = Bool(FALSE))]_vars

\* C13: in every list response a task created later stands before a task
\* created earlier.
C13_ListNewestFirst ==
    (memRes.op = "list") =>
        \A i, j \in DOMAIN memRes.body.rows :
            i < j => memRes.body.rows[i].createdAt >= memRes.body.rows[j].createdAt

C15_UpdateStampsModified ==
    [][(taskRes'.op = "update" /\ now' = now) =>
         /\ (taskRes'.status = 200) =>
               /\ taskRes'.body.task \in tasks'
               /\ taskRes'.body.task.updatedAt = now
               /\ taskRes'.body.task.updatedAt >= taskRes'.body.task.createdAt
         /\ (taskRes'.status = 404) => tasks' = tasks]_vars

C18_OnlyHashesStored ==
    \A u \in users :
        /\ u.password.alg = "2b"
        /\ u.password.cost = SaltRounds
        /\ \E p \in Passwords :
              u.password = BcryptHash(p, SaltRounds, u.password.salt)

\* a registration was answered 201 and its row is in the table, and a login
\* against that row has been answered
C18_Witness ==
    \E i, j \in AcctReqs :
        /\ RegisterDone(i) /\ acct[i].status = 201
        /\ \E u \in users : u.email = acct[i].email /\ u.id = acct[i].body.user.id
        /\ LoginDone(j) /\ acct[j].row.id = acct[i].body.user.id

\* C19: a response of /register or /login carries no password hash: a 201
\* holds a message and the user's id and email, a 200 the token and the
\* user's id and email, any other response an error message only.
C19_NoHashInResponse ==
    \A i \in AcctReqs :
        (acct[i].pc = "done") =>
            IF acct[i].status = 201
              THEN /\ DOMAIN acct[i].body = {"message", "user"}
                   /\ DOMAIN acct[i].body.user = {"id", "email"}
            ELSE IF acct[i].status = 200
              THEN /\ DOMAIN acct[i].body = {"token", "user"}
                   /\ DOMAIN acct[i].body.user = {"id", "email"}
                   /\ DOMAIN acct[i].body.token = {"kind", "userId", "iat", "exp", "sig"}
            ELSE DOMAIN acct[i].body = {"error"}

\* a registration answered 201 and a login answered 200
C19_Witness ==
    \E i, j \in AcctReqs :
        /\ RegisterDone(i) /\ acct[i].status = 201
        /\ LoginDone(j) /\ acct[j].status = 200

\* lower-casing of the email addresses in use
LowerCase(email) == IF email = "A@x.com" THEN "a@x.com" ELSE email

\* C20: emails match without regard to letter case: no two users rows have
\* emails equal up to case, and a login with the password of a registered
\* email, in any casing of that email, is answered 200.
C20_EmailCaseInsensitive ==
    /\ \A u, v \in users :
          LowerCase(u.email) = LowerCase(v.email) => u = v
    /\ \A i \in AcctReqs :
          (/\ LoginDone(i)
           /\ \E r \in acct[i].after :
                 /\ LowerCase(r[1]) = LowerCase(acct[i].email)
                 /\ r[2] = acct[i].password) =>
             acct[i].status = 200

(* ========================= lifetime of a token ========================= *)
\* C21: a token that login has issued is accepted by verify at every time
\* before its expiration, whatever logins, logouts and clock steps came after
\* it was issued.
C21_IssuedStaysValid ==
    \A tok \in issued :
        (now < tok.exp) => JwtVerify(tok, JwtSecret, now) = "ok"

\* two logins issued tokens at different times, the browser has stored one
\* and logged out, and the older token is in the last day of its lifetime
C21_Witness ==
    \E t1, t2 \in issued :
        /\ t1.iat < t2.iat
        /\ now = t1.exp - 1
        /\ localStorage = NoItem
        /\ \E i \in SessionLogins : LoginDone(i) /\ acct[i].status = 200

(* ================= identifiers of the in-memory tasks ================== *)
\* C22: no two tasks of the tasks array have the same id.
C22_TaskIdsUnique ==
    \A i, j \in 1..Len(memTasks) :
        i # j => memTasks[i].id # memTasks[j].id

(* ====================== what an update may change ====================== *)
\* C23: an update leaves every task with its id, its owner and its creation
\* timestamp, and neither adds nor removes a task.
C23_UpdateKeepsIdentity ==
    [][(taskRes'.op = "update") =>
         /\ Cardinality(tasks') = Cardinality(tasks)
         /\ \A t \in tasks : \E r \in tasks' :
               /\ r.id = t.id
               /\ r.user_id = t.user_id
               /\ r.createdAt = t.createdAt]_vars

\* an update was answered 200 after the clock had moved on since the
\* task's creation, with a task of the other user in the table
C23_Witness ==
    /\ taskRes.op = "update"
    /\ taskRes.status = 200
    /\ taskRes.changed
    /\ taskRes.body.task.createdAt < now
    /\ \E t \in tasks : t.user_id # taskRes.caller

\* C24: an update answered 200 leaves each of title, description and
\* completed that its body omits at the value the task had before.
C24_OmittedFieldsKept ==
    [][\A u \in UserIds, id \in DbIdParams, b \in DbPutBodies :
         (/\ taskRes'.op = "update" /\ taskRes'.status = 200
          /\ TaskUpdate(u, id, b.title, b.completed)) =>
            \A t \in tasks :
                (t.id = taskRes'.body.task.id) =>
                    /\ (b.title = Undefined) => taskRes'.body.task.title = t.title
                    /\ (b.completed = Undefined) =>
                          taskRes'.body.task.completed = t.completed
                    /\ taskRes'.body.task.description = t.description]_vars

C26_ExactlyOneOutcome ==
    /\ [](\A i \in AcctReqs :
            /\ acct[i].responses <= 1
            /\ (acct[i].pc = "done") <=> (acct[i].responses = 1))
    /\ \A i \in FaultReqs :
          (acct[i].pc # "idle") ~> (acct[i].pc = "done" /\ acct[i].responses = 1)

\* one request was answered 400 by the early return and another 500 after
\* a failed query
C26_Witness ==
    \E i, j \in FaultReqs :
        /\ acct[i].pc = "done" /\ acct[i].status = 400
        /\ acct[j].pc = "done" /\ acct[j].status = 500
        /\ acct[j].body = [error |-> ConnectionRefused]

\* C27: a request that fails because the database is unreachable is
\* answered 500 with a body that does not carry the error's message.
C27_FaultAnswerGeneric ==
    \A i \in AcctReqs :
        (acct[i].pc = "done" /\ acct[i].status = 500) =>
            acct[i].body.error # ConnectionRefused

(* ==================== the raw HTTP logging server ====================== *)
\* C28: a request whose body has been received in full ('end' emitted)
\* eventually has its response ended.
C28_ResponseCompleted ==
    (http.phase = "ended") ~> http.finished

(* ============== flags and lifecycle of the in-memory tasks ============= *)
\* C29: the completion flag of every task of the array is a boolean, and
\* the tasks with flag true and those with flag false are together all tasks.
C29_CompletedIsBoolean ==
    /\ \A k \in 1..Len(memTasks) : memTasks[k].completed \in {Bool(TRUE), Bool(FALSE)}
    /\ Len(SelectSeq(memTasks, CompletedIsTrue))
          + Len(SelectSeq(memTasks, CompletedIsFalse)) = Len(memTasks)

\* C30: when a delete of an id has been answered 200, a get, update or
\* delete of the same id that follows it directly is answered 404.
C30_DeletedStaysGone ==
    [][(/\ memRes.op = "delete" /\ memRes.status = 200
        /\ now' = now
        /\ memRes'.op \in {"get", "update", "delete"}
        /\ ParseInt(memRes'.req) = ParseInt(memRes.req))
       => memRes'.status = 404]_vars

====
